---- MODULE Spec2Model ----
(***************************************************************************)
(* A model of elftools/elf/segments.py: the Segment class (data() and the *)
(* strict containment predicate section_in_segment) and the InterpSegment *)
(* and NoteSegment specialisations, all reading one shared, seekable byte *)
(* stream.                                                                 *)
(*                                                                         *)
(* Python integers are unbounded and signed, so the arithmetic of the     *)
(* predicate is modelled with TLA+ integers and no wrap-around.           *)
(***************************************************************************)
EXTENDS Integers, Sequences, FiniteSets, TLC

(***************************************************************************)
(* Bounds of the model.                                                    *)
(***************************************************************************)
\* p_offset and p_vaddr of the containment inputs range over 0..MaxBase
MaxBase == 1
\* p_filesz and p_memsz range over 0..MaxSize
MaxSize == 1
\* number of bytes in the shared stream
StreamLen == 4

(***************************************************************************)
(* Section flag bits (SH_FLAGS of elftools/elf/constants.py).              *)
(***************************************************************************)
SHF_WRITE == 1
SHF_ALLOC == 2
SHF_TLS == 1024

\* Python's a & b on non-negative integers
RECURSIVE BitAnd(_, _)
BitAnd(a, b) ==
    IF a = 0 \/ b = 0 THEN 0
    ELSE (IF a % 2 = 1 /\ b % 2 = 1 THEN 1 ELSE 0) + 2 * BitAnd(a \div 2, b \div 2)

(***************************************************************************)
(* Header views.                                                           *)
(***************************************************************************)
\* the segments sharing the stream; each is driven by its own thread
Segments == {"A", "B"}
\* the segment of single-threaded use
Main == "A"

SegmentTypes ==
    {"PT_LOAD", "PT_DYNAMIC", "PT_INTERP", "PT_PHDR", "PT_TLS",
     "PT_GNU_EH_FRAME", "PT_GNU_STACK", "PT_GNU_RELRO"}
SectionTypes == {"SHT_PROGBITS", "SHT_NOBITS"}
FlagValues ==
    {0, SHF_ALLOC, SHF_ALLOC + SHF_WRITE, SHF_TLS, SHF_TLS + SHF_ALLOC}

\* decoded program headers and section headers the predicate is applied to
ProgramHeaders ==
    [p_type : SegmentTypes, p_offset : 0..MaxBase, p_vaddr : 0..MaxBase,
     p_filesz : 0..MaxSize, p_memsz : 0..MaxSize]
SectionHeaders ==
    [sh_type : SectionTypes, sh_flags : FlagValues,
     sh_addr : 0..(MaxBase + MaxSize), sh_size : 0..(MaxSize + 1),
     sh_offset : 0..(MaxBase + MaxSize)]

\* program headers of segments whose bytes are read from the stream; their
\* ranges reach inside, up to and past the end of the stream
StreamHeaders ==
    [p_type : {"PT_INTERP"}, p_offset : (StreamLen - 2)..StreamLen,
     p_vaddr : {0}, p_filesz : 0..(MaxSize + 1), p_memsz : {MaxSize + 1}]
StreamSections ==
    [sh_type : {"SHT_PROGBITS"}, sh_flags : {0, SHF_ALLOC},
     sh_addr : {0}, sh_size : {1}, sh_offset : {StreamLen - 1}]

(***************************************************************************)
(* The byte source: a fixed content and a shared read position.           *)
(***************************************************************************)
\* the byte at 0-based offset i; the last byte is a NUL terminator
StreamByte(i) == IF i = StreamLen - 1 THEN 0 ELSE 65 + i

Min(a, b) == IF a < b THEN a ELSE b
Max(a, b) == IF a > b THEN a ELSE b

\* the bytes of [from, from + n) that exist in the stream
Slice(from, n) ==
    [i \in 1..Max(0, Min(n, StreamLen - from)) |-> StreamByte(from + i - 1)]

VARIABLES
    header,     \* header[g]: the Header View of segment g (self.header)
    section,    \* the Section View handed to section_in_segment
    pos,        \* read position of the shared stream (self.stream)
    pc,         \* pc[g]: where the call running on segment g stands
    ret,        \* ret[g]: what the last completed call on segment g returned
    acc         \* acc[g]: characters of the interpreter path read so far

vars == <<header, section, pos, pc, ret, acc>>

NoRet == [kind |-> "none", bytes |-> <<>>, flag |-> FALSE]
BytesRet(b) == [kind |-> "bytes", bytes |-> b, flag |-> FALSE]
StrRet(b) == [kind |-> "str", bytes |-> b, flag |-> FALSE]
\* an exception raised to the caller: "parse_error" is struct_parse's
\* ELFParseError, "io_error" an error raised for a failed read
ErrorRet(k) == [kind |-> k, bytes |-> <<>>, flag |-> FALSE]
\* the note records of iter_notes, once consumed; their content is the note
\* decoder's and is left opaque
NotesRet == [kind |-> "notes", bytes |-> <<>>, flag |-> FALSE]
BoolRet(f) == [kind |-> "bool", bytes |-> <<>>, flag |-> f]

\* stream.seek(p): the new position
seek(p) == p

\* stream.read(n) at position p: the bytes returned (fewer than n at the end
\* of the stream, none past it)
read(p, n) == BytesRet(Slice(p, n))

\* the position after stream.read(n) at position p
tell_after_read(p, n) == p + Len(Slice(p, n))

(***************************************************************************)
(* section_in_segment, check by check.                                     *)
(***************************************************************************)
\* faulty variant of check 1: PT_PHDR left out of the elif
tls_check_rejects_no_phdr(segtype, secflags) ==
    IF BitAnd(secflags, SHF_TLS) # 0
       /\ segtype \in {"PT_TLS", "PT_GNU_RELRO", "PT_LOAD"}
    THEN FALSE
    ELSE BitAnd(secflags, SHF_TLS) # 0 \/ segtype \in {"PT_TLS"}

\* check 1: TLS sections and PT_TLS / PT_PHDR segments
tls_check_rejects(segtype, secflags) ==
    IF BitAnd(secflags, SHF_TLS) # 0
       /\ segtype \in {"PT_TLS", "PT_GNU_RELRO", "PT_LOAD"}
    THEN FALSE
    ELSE BitAnd(secflags, SHF_TLS) # 0 \/ segtype \in {"PT_TLS", "PT_PHDR"}

\* faulty variant of check 2: PT_GNU_STACK left out of the list
alloc_check_rejects_no_stack(segtype, secflags) ==
    /\ BitAnd(secflags, SHF_ALLOC) = 0
    /\ segtype \in {"PT_LOAD", "PT_DYNAMIC", "PT_GNU_EH_FRAME", "PT_GNU_RELRO"}

\* check 2: PT_LOAD and similar segments only have SHF_ALLOC sections
alloc_check_rejects(segtype, secflags) ==
    /\ BitAnd(secflags, SHF_ALLOC) = 0
    /\ segtype \in {"PT_LOAD", "PT_DYNAMIC", "PT_GNU_EH_FRAME",
                    "PT_GNU_RELRO", "PT_GNU_STACK"}

\* faulty variant of check 3: the strict comparison against p_memsz - 1
\* written against p_memsz
vma_check_rejects_lax(h, s) ==
    /\ BitAnd(s.sh_flags, SHF_ALLOC) # 0
    /\ \/ s.sh_addr < h.p_vaddr
       \/ s.sh_addr - h.p_vaddr + s.sh_size > h.p_memsz
       \/ s.sh_addr - h.p_vaddr > h.p_memsz

\* check 3: the VMA of an alloc section is in bounds
vma_check_rejects(h, s) ==
    /\ BitAnd(s.sh_flags, SHF_ALLOC) # 0
    /\ \/ s.sh_addr < h.p_vaddr
       \/ s.sh_addr - h.p_vaddr + s.sh_size > h.p_memsz
       \/ s.sh_addr - h.p_vaddr > h.p_memsz - 1

\* faulty variant of check 5: the strict third comparison left out
file_offset_contained_lax(h, s) ==
    /\ s.sh_offset >= h.p_offset
    /\ s.sh_offset - h.p_offset + s.sh_size <= h.p_filesz

\* check 5: the same on offsets in the file
file_offset_contained(h, s) ==
    /\ s.sh_offset >= h.p_offset
    /\ s.sh_offset - h.p_offset + s.sh_size <= h.p_filesz
    /\ s.sh_offset - h.p_offset <= h.p_filesz - 1

\* faulty variant of the predicate: no NOBITS shortcut
section_in_segment_no_shortcut(h, s) ==
    IF tls_check_rejects(h.p_type, s.sh_flags) THEN FALSE
    ELSE IF alloc_check_rejects(h.p_type, s.sh_flags) THEN FALSE
    ELSE IF vma_check_rejects(h, s) THEN FALSE
    ELSE file_offset_contained(h, s)

section_in_segment(h, s) ==
    IF tls_check_rejects(h.p_type, s.sh_flags) THEN FALSE
    ELSE IF alloc_check_rejects(h.p_type, s.sh_flags) THEN FALSE
    ELSE IF vma_check_rejects(h, s) THEN FALSE
    ELSE IF s.sh_type = "SHT_NOBITS" THEN TRUE
    ELSE file_offset_contained(h, s)

(***************************************************************************)
(* The operations, one action per step.                                    *)
(***************************************************************************)
\* faulty variant of the first step of data(): the seek left out
data_no_seek(g) ==
    /\ pc[g] = "idle"
    /\ pc' = [pc EXCEPT ![g] = "data_read"]
    /\ ret' = [ret EXCEPT ![g] = NoRet]
    /\ UNCHANGED <<header, section, pos, acc>>

\* data(), line 23: self.stream.seek(self['p_offset'])
data_seek(g) ==
    /\ pc[g] = "idle"
    /\ pos' = seek(header[g].p_offset)
    /\ pc' = [pc EXCEPT ![g] = "data_read"]
    /\ ret' = [ret EXCEPT ![g] = NoRet]
    /\ UNCHANGED <<header, section, acc>>

\* variant of the second step of data() that reads at the segment's own
\* offset (a positioned read) instead of the shared position
data_read_at_own_offset(g) ==
    /\ pc[g] = "data_read"
    /\ ret' = [ret EXCEPT ![g] = read(header[g].p_offset, header[g].p_filesz)]
    /\ pos' = tell_after_read(header[g].p_offset, header[g].p_filesz)
    /\ pc' = [pc EXCEPT ![g] = "idle"]
    /\ UNCHANGED <<header, section, acc>>

\* data(), line 24: return self.stream.read(self['p_filesz'])
data_read(g) ==
    /\ pc[g] = "data_read"
    /\ ret' = [ret EXCEPT ![g] = read(pos, header[g].p_filesz)]
    /\ pos' = tell_after_read(pos, header[g].p_filesz)
    /\ pc' = [pc EXCEPT ![g] = "idle"]
    /\ UNCHANGED <<header, section, acc>>

\* get_interp_name(): struct_parse seeks the stream to p_offset
get_interp_name_seek(g) ==
    /\ pc[g] = "idle"
    /\ pos' = seek(header[g].p_offset)
    /\ pc' = [pc EXCEPT ![g] = "interp_read"]
    /\ ret' = [ret EXCEPT ![g] = NoRet]
    /\ acc' = [acc EXCEPT ![g] = <<>>]
    /\ UNCHANGED <<header, section>>

\* get_interp_name(): CString reads one character; the terminator ends the
\* string, the end of the stream is a parse error
get_interp_name_read(g) ==
    /\ pc[g] = "interp_read"
    /\ pos' = tell_after_read(pos, 1)
    /\ LET c == read(pos, 1).bytes
       IN  IF c = <<>>
           THEN /\ ret' = [ret EXCEPT ![g] = ErrorRet("parse_error")]
                /\ pc' = [pc EXCEPT ![g] = "idle"]
                /\ acc' = [acc EXCEPT ![g] = <<>>]
           ELSE IF c[1] = 0
           THEN /\ ret' = [ret EXCEPT ![g] = StrRet(acc[g])]
                /\ pc' = [pc EXCEPT ![g] = "idle"]
                /\ acc' = [acc EXCEPT ![g] = <<>>]
           ELSE /\ acc' = [acc EXCEPT ![g] = Append(acc[g], c[1])]
                /\ UNCHANGED <<ret, pc>>
    /\ UNCHANGED <<header, section>>

\* iter_notes(), consumed: an empty byte range yields no record and the
\* stream is not touched; otherwise the note decoder seeks the stream to
\* p_offset
iter_notes_seek(g) ==
    /\ pc[g] = "idle"
    /\ IF header[g].p_filesz = 0
       THEN /\ ret' = [ret EXCEPT ![g] = NotesRet]
            /\ UNCHANGED <<pos, pc>>
       ELSE /\ pos' = seek(header[g].p_offset)
            /\ pc' = [pc EXCEPT ![g] = "notes_read"]
            /\ ret' = [ret EXCEPT ![g] = NoRet]
    /\ UNCHANGED <<header, section, acc>>

\* iter_notes(), consumed: the note decoder reads the records from the shared
\* position; how many bytes the framing makes it read is the decoder's
\* matter, so the position it leaves is any position up to the end of the
\* stream; a record cut short by the end of the stream is a parse error
iter_notes_read(g) ==
    /\ pc[g] = "notes_read"
    /\ \E n \in 0..Max(0, StreamLen - pos) :
          /\ pos' = tell_after_read(pos, n)
          /\ \/ ret' = [ret EXCEPT ![g] = NotesRet]
             \/ /\ tell_after_read(pos, n) = StreamLen
                /\ ret' = [ret EXCEPT ![g] = ErrorRet("parse_error")]
    /\ pc' = [pc EXCEPT ![g] = "idle"]
    /\ UNCHANGED <<header, section, acc>>

\* faulty variant of section_in_segment that touches the stream
section_in_segment_seeking(g) ==
    /\ pc[g] = "idle"
    /\ ret' = [ret EXCEPT ![g] = BoolRet(section_in_segment(header[g], section))]
    /\ pos' = seek(header[g].p_offset)
    /\ UNCHANGED <<header, section, pc, acc>>

\* section_in_segment(section) on segment g: one step, fields only
section_in_segment_call(g) ==
    /\ pc[g] = "idle"
    /\ ret' = [ret EXCEPT ![g] = BoolRet(section_in_segment(header[g], section))]
    /\ UNCHANGED <<header, section, pos, pc, acc>>

\* no other segment has a call in flight
Quiet(g) == \A u \in Segments \ {g} : pc[u] = "idle"

(***************************************************************************)
(* Specifications.                                                         *)
(***************************************************************************)
\* after construction: headers decoded, stream at its start, nothing called
InitCommon ==
    /\ pos = 0
    /\ pc = [g \in Segments |-> "idle"]
    /\ ret = [g \in Segments |-> NoRet]
    /\ acc = [g \in Segments |-> <<>>]

Init ==
    /\ header \in [Segments -> StreamHeaders]
    /\ section \in StreamSections
    /\ InitCommon

\* threads calling data(), iter_notes() and section_in_segment, one per
\* segment, on the shared stream with no locking: the steps of the calls
\* interleave freely
Next ==
    \E g \in Segments :
        \/ data_seek(g)
        \/ data_read(g)
        \/ iter_notes_seek(g)
        \/ iter_notes_read(g)
        \/ section_in_segment_call(g)

Spec == Init /\ [][Next]_vars

\* serialized access: a call starts only when no other call is in flight
NextSeq ==
    \E g \in Segments :
        \/ Quiet(g) /\ data_seek(g)
        \/ data_read(g)
        \/ Quiet(g) /\ get_interp_name_seek(g)
        \/ get_interp_name_read(g)
        \/ Quiet(g) /\ iter_notes_seek(g)
        \/ iter_notes_read(g)
        \/ Quiet(g) /\ section_in_segment_call(g)

SpecSeq == Init /\ [][NextSeq]_vars

\* the predicate alone, over every pair of decoded headers within the bounds
InitContain ==
    /\ \E h \in ProgramHeaders : header = [g \in Segments |-> h]
    /\ section \in SectionHeaders
    /\ InitCommon

NextContain == section_in_segment_call(Main)

SpecContain == InitContain /\ [][NextContain]_vars

(***************************************************************************)
(* The claims.  The conditions below are written from the specification,  *)
(* not from the operators above.                                           *)
(***************************************************************************)
HasTls(s) == BitAnd(s.sh_flags, SHF_TLS) # 0
HasAlloc(s) == BitAnd(s.sh_flags, SHF_ALLOC) # 0

\* the TLS check returns false
TlsCheckFalse(h, s) ==
    \/ HasTls(s) /\ h.p_type \notin {"PT_TLS", "PT_GNU_RELRO", "PT_LOAD"}
    \/ ~HasTls(s) /\ h.p_type \in {"PT_TLS", "PT_PHDR"}

\* the allocatable-only check returns false
AllocCheckFalse(h, s) ==
    /\ ~HasAlloc(s)
    /\ h.p_type \in {"PT_LOAD", "PT_DYNAMIC", "PT_GNU_EH_FRAME",
                     "PT_GNU_RELRO", "PT_GNU_STACK"}

\* one of the three comparisons of the virtual-address check holds
VmaOutOfRange(h, s) ==
    \/ s.sh_addr < h.p_vaddr
    \/ s.sh_addr - h.p_vaddr + s.sh_size > h.p_memsz
    \/ s.sh_addr - h.p_vaddr > h.p_memsz - 1

\* the three comparisons of the file-offset test all hold
FileRangeInside(h, s) ==
    /\ s.sh_offset >= h.p_offset
    /\ s.sh_offset - h.p_offset + s.sh_size <= h.p_filesz
    /\ s.sh_offset - h.p_offset <= h.p_filesz - 1

\* section_in_segment has been called on the main segment and has returned
Called == ret[Main].kind = "bool"
Contained == ret[Main].flag

\* the bytes of the stream at offsets [from, from + n)
BytesAt(from, n) == [i \in 1..n |-> StreamByte(from + i - 1)]

\* C1 (as amended): for an ALLOC section that the TLS check does not reject,
\* section_in_segment returns false if sh_addr < p_vaddr, or
\* sh_addr - p_vaddr + sh_size > p_memsz, or sh_addr - p_vaddr > p_memsz - 1;
\* a zero-size ALLOC section at p_vaddr + p_memsz is never contained; and,
\* when p_memsz >= 1, a zero-size ALLOC section at p_vaddr + p_memsz - 1 is
\* not rejected by the virtual-address check: the result is then that of the
\* NOBITS shortcut and the file-offset test.
C1_VmaContainment ==
    LET h == header[Main]
        s == section
    IN  (Called /\ HasAlloc(s) /\ ~TlsCheckFalse(h, s)) =>
            /\ VmaOutOfRange(h, s) => ~Contained
            /\ (s.sh_size = 0 /\ s.sh_addr = h.p_vaddr + h.p_memsz) => ~Contained
            /\ (s.sh_size = 0 /\ h.p_memsz >= 1
                /\ s.sh_addr = h.p_vaddr + h.p_memsz - 1) =>
                   (Contained <=> (s.sh_type = "SHT_NOBITS" \/ FileRangeInside(h, s)))

\* C1 as stated: the same, with the section at p_vaddr + p_memsz - 1 not
\* rejected whatever p_memsz is.
C1_AsStated ==
    LET h == header[Main]
        s == section
    IN  (Called /\ HasAlloc(s) /\ ~TlsCheckFalse(h, s)) =>
            /\ VmaOutOfRange(h, s) => ~Contained
            /\ (s.sh_size = 0 /\ s.sh_addr = h.p_vaddr + h.p_memsz) => ~Contained
            /\ (s.sh_size = 0 /\ s.sh_addr = h.p_vaddr + h.p_memsz - 1) =>
                   (Contained <=> (s.sh_type = "SHT_NOBITS" \/ FileRangeInside(h, s)))

\* a zero-size NOBITS section exactly at the end of a non-empty PT_LOAD
\* segment's mapped range has been found not contained
C1_Witness ==
    /\ Called /\ ~Contained
    /\ header[Main].p_type = "PT_LOAD" /\ header[Main].p_memsz >= 1
    /\ section.sh_flags = SHF_ALLOC /\ section.sh_type = "SHT_NOBITS"
    /\ section.sh_size = 0
    /\ section.sh_addr = header[Main].p_vaddr + header[Main].p_memsz

\* C2: when none of the TLS check, the allocatable-only check and the
\* virtual-address check returns false and the section is not NOBITS, the
\* result is true iff sh_offset >= p_offset, sh_offset - p_offset + sh_size
\* <= p_filesz and sh_offset - p_offset <= p_filesz - 1; with p_filesz = 0
\* no such section is contained.
C2_FileOffsetContainment ==
    LET h == header[Main]
        s == section
    IN  (/\ Called
         /\ ~TlsCheckFalse(h, s)
         /\ ~AllocCheckFalse(h, s)
         /\ ~(HasAlloc(s) /\ VmaOutOfRange(h, s))
         /\ s.sh_type # "SHT_NOBITS") =>
            /\ Contained <=> FileRangeInside(h, s)
            /\ h.p_filesz = 0 => ~Contained

\* an ALLOC PROGBITS section that fills a PT_LOAD segment exactly, in memory
\* and in the file, has been found contained
C2_Witness ==
    /\ Called /\ Contained
    /\ header[Main].p_type = "PT_LOAD"
    /\ section.sh_type = "SHT_PROGBITS" /\ section.sh_flags = SHF_ALLOC
    /\ section.sh_addr = header[Main].p_vaddr
    /\ section.sh_offset = header[Main].p_offset
    /\ section.sh_size = header[Main].p_memsz
    /\ section.sh_size = header[Main].p_filesz
    /\ section.sh_size >= 1

\* C3: the result is false for a TLS section in a segment that is none of
\* PT_TLS, PT_GNU_RELRO, PT_LOAD, and for a section without the TLS flag in
\* a PT_TLS or PT_PHDR segment, whatever the addresses, sizes and offsets.
C3_TlsCompatibility ==
    (Called /\ TlsCheckFalse(header[Main], section)) => ~Contained

\* a non-TLS NOBITS section lying inside a PT_PHDR segment has been found not
\* contained
C3_Witness ==
    /\ Called /\ ~Contained
    /\ header[Main].p_type = "PT_PHDR"
    /\ section.sh_flags = SHF_ALLOC /\ section.sh_type = "SHT_NOBITS"
    /\ ~VmaOutOfRange(header[Main], section)

\* C4: the result is false for every section without the ALLOC flag when the
\* segment type is PT_LOAD, PT_DYNAMIC, PT_GNU_EH_FRAME, PT_GNU_RELRO or
\* PT_GNU_STACK, whatever the section type, addresses, sizes and offsets.
C4_AllocOnlySegments ==
    (/\ Called
     /\ ~HasAlloc(section)
     /\ header[Main].p_type \in {"PT_LOAD", "PT_DYNAMIC", "PT_GNU_EH_FRAME",
                                 "PT_GNU_RELRO", "PT_GNU_STACK"}) => ~Contained

\* a NOBITS section with no flag at all has been found not contained in a
\* PT_GNU_STACK segment
C4_Witness ==
    /\ Called /\ ~Contained
    /\ header[Main].p_type = "PT_GNU_STACK"
    /\ section.sh_flags = 0 /\ section.sh_type = "SHT_NOBITS"

\* C5: a NOBITS section with the ALLOC flag, inside the virtual-address range
\* and not rejected by the TLS check, is contained for every sh_offset,
\* p_offset and p_filesz.
C5_NobitsShortcut ==
    (/\ Called
     /\ section.sh_type = "SHT_NOBITS"
     /\ HasAlloc(section)
     /\ ~VmaOutOfRange(header[Main], section)
     /\ ~TlsCheckFalse(header[Main], section)) => Contained

\* a NOBITS section whose file offset lies outside the segment's file range
\* has been found contained
C5_Witness ==
    /\ Called /\ Contained
    /\ section.sh_type = "SHT_NOBITS" /\ HasAlloc(section)
    /\ ~FileRangeInside(header[Main], section)
    /\ section.sh_offset < header[Main].p_offset

\* C6: when p_memsz = 0 and a zero-size ALLOC section sits at sh_addr =
\* p_vaddr, the virtual-address check does not return false; such a NOBITS,
\* non-TLS section in a PT_LOAD segment is contained.
C6_ZeroSizeSegmentException ==
    LET h == header[Main]
        s == section
    IN  (/\ Called
         /\ HasAlloc(s) /\ ~HasTls(s)
         /\ h.p_memsz = 0 /\ s.sh_size = 0 /\ s.sh_addr = h.p_vaddr
         /\ h.p_type = "PT_LOAD" /\ s.sh_type = "SHT_NOBITS") => Contained

\* C7: with calls serialized, a data() call on a segment whose range lies
\* inside the stream returns exactly the p_filesz bytes at offsets
\* [p_offset, p_offset + p_filesz) and leaves the stream position at
\* p_offset + p_filesz, wherever earlier calls left the position.
C7_DataReturnsOwnRange ==
    [][\A g \in Segments :
          (/\ pc[g] = "data_read" /\ pc'[g] = "idle"
           /\ header[g].p_offset + header[g].p_filesz <= StreamLen) =>
              /\ ret'[g] = BytesRet(BytesAt(header[g].p_offset, header[g].p_filesz))
              /\ pos' = header[g].p_offset + header[g].p_filesz]_vars

\* a data() call has returned the bytes of its non-empty range after a
\* get_interp_name() call on the other segment had moved the position
C7_Witness ==
    \E g \in Segments : \E u \in Segments \ {g} :
        /\ pc[g] = "idle" /\ pc[u] = "idle"
        /\ ret[u].kind \in {"str", "parse_error"}
        /\ header[u].p_offset # header[g].p_offset
        /\ header[g].p_filesz >= 1
        /\ header[g].p_offset + header[g].p_filesz <= StreamLen
        /\ ret[g] = BytesRet(BytesAt(header[g].p_offset, header[g].p_filesz))
        /\ pos = header[g].p_offset + header[g].p_filesz

\* C8: a completed data() call whose read was short (its range ends past the
\* end of the stream) has failed with an I/O error and returned no buffer.
C8_ShortReadFails ==
    \A g \in Segments :
        (/\ pc[g] = "idle"
         /\ ret[g].kind \in {"bytes", "io_error"}
         /\ header[g].p_offset + header[g].p_filesz > StreamLen) =>
            ret[g].kind = "io_error"

\* C9: the read step of data() returns the bytes at the shared position as
\* it stands when the read runs: nothing ties the position to the call's own
\* seek, so a seek of another call between the two steps decides the result.
C9_ReadUsesSharedPosition ==
    [][\A g \in Segments :
          (pc[g] = "data_read" /\ pc'[g] = "idle") =>
              ret'[g] = BytesRet(BytesAt(pos, Max(0, Min(header[g].p_filesz,
                                                         StreamLen - pos))))]_vars

\* seek A, seek B, read A: the call on g has returned the bytes at the other
\* segment's offset, which are not the bytes of its own range, while the
\* other call still stands between its seek and its read
C9_Witness ==
    \E g \in Segments : \E u \in Segments \ {g} :
        /\ pc[g] = "idle" /\ pc[u] = "data_read"
        /\ header[g].p_offset # header[u].p_offset
        /\ header[g].p_filesz >= 1
        /\ header[g].p_offset + header[g].p_filesz <= StreamLen
        /\ ret[g].kind = "bytes"
        /\ ret[g].bytes # BytesAt(header[g].p_offset, header[g].p_filesz)
        /\ ret[g].bytes = BytesAt(header[u].p_offset, Len(ret[g].bytes))
        /\ Len(ret[g].bytes) >= 1

\* C10: a section_in_segment step leaves the stream position and both header
\* mappings unchanged, in every state and whatever data() calls are in
\* flight, and its result is a function of the two headers' fields alone.
C10_ContainmentIsPure ==
    [][\A g \in Segments :
          (ret'[g].kind = "bool" /\ ret'[g] # ret[g]) =>
              /\ pos' = pos
              /\ header' = header
              /\ section' = section
              /\ pc' = pc
              /\ ret'[g].flag =
                    ((~TlsCheckFalse(header[g], section))
                     /\ (~AllocCheckFalse(header[g], section))
                     /\ (~(HasAlloc(section) /\ VmaOutOfRange(header[g], section)))
                     /\ (section.sh_type = "SHT_NOBITS"
                         \/ FileRangeInside(header[g], section)))]_vars

\* section_in_segment has returned true on one segment while a data() call
\* on the other stands between its seek and its read, the position being
\* where that seek left it
C10_Witness ==
    \E g \in Segments : \E u \in Segments \ {g} :
        /\ ret[g] = BoolRet(TRUE)
        /\ pc[u] = "data_read"
        /\ pos = header[u].p_offset
        /\ pos # 0

====
